---- MODULE Spec2Model ----
(***************************************************************************)
(* JustCmsService (just-cms.service.ts): a client of the JustCMS public    *)
(* API.  The client is constructed from an injected configuration, every   *)
(* public operation builds one GET request through the private helper get, *)
(* and the transport's answer reaches the caller through the operators     *)
(* piped onto the request (catchError, map).  The utility methods are pure *)
(* functions and are exercised by a specification of their own.            *)
(***************************************************************************)
EXTENDS Integers, Sequences, FiniteSets, TLC

VARIABLES
    config,     \* the JustCmsConfig handed to the constructor
    client,     \* "none" before construction, then "ready" or "failed"
    ctorError,  \* message of the Error the constructor threw, "" if none
    requests,   \* every request handed to the transport, in order
    calls,      \* every call of a public operation, in order
    util        \* the last call of a utility method and what it returned

vars == <<config, client, ctorError, requests, calls, util>>

\* Number of calls of public operations a behaviour makes.
MaxCalls == 2
\* Length of the styles array of a block.
MaxStyles == 2
\* Length of the variants array of an image.
MaxVariants == 3

(***************************************************************************)
(* JavaScript values.                                                      *)
(***************************************************************************)
Undefined == [t |-> "undefined"]
Null == [t |-> "null"]
Str(s) == [t |-> "string", s |-> s]
Num(n) == [t |-> "number", n |-> n]

\* ToBoolean, as applied by if (...) and by !x.
Truthy(v) ==
    CASE v.t = "string" -> v.s # ""
      [] v.t = "number" -> v.n # 0
      [] OTHER -> FALSE

Digit(d) ==
    CASE d = 0 -> "0" [] d = 1 -> "1" [] d = 2 -> "2" [] d = 3 -> "3"
      [] d = 4 -> "4" [] d = 5 -> "5" [] d = 6 -> "6" [] d = 7 -> "7"
      [] d = 8 -> "8" [] d = 9 -> "9"

RECURSIVE NatToString(_)
NatToString(n) ==
    IF n < 10 THEN Digit(n) ELSE NatToString(n \div 10) \o Digit(n % 10)

\* String(value), also what a template literal applies to its holes.
String(v) ==
    CASE v.t = "string" -> v.s
      [] v.t = "number" -> IF v.n < 0 THEN "-" \o NatToString(0 - v.n)
                                      ELSE NatToString(v.n)
      [] v.t = "null" -> "null"
      [] OTHER -> "undefined"

(***************************************************************************)
(* The constructor.                                                        *)
(***************************************************************************)
BASE_URL == "https://api.justcms.co/public"

\* The constructor without its second check (lines 179-181 dropped).
constructorNoProjectCheck(cfg) ==
    IF ~Truthy(cfg.apiToken)
    THEN [threw |-> TRUE, message |-> "JustCMS API token is required"]
    ELSE [threw |-> FALSE, message |-> ""]

constructor(cfg) ==
    IF ~Truthy(cfg.apiToken)
    THEN [threw |-> TRUE, message |-> "JustCMS API token is required"]
    ELSE IF ~Truthy(cfg.projectId)
    THEN [threw |-> TRUE, message |-> "JustCMS project ID is required"]
    ELSE [threw |-> FALSE, message |-> ""]

(***************************************************************************)
(* The private helper get: URL, HttpParams and headers of the request.     *)
(* A query object is the sequence of its entries in insertion order;       *)
(* queryParams is [defined, entries] since the parameter is optional.      *)
(***************************************************************************)
NoQuery == [defined |-> FALSE, entries |-> <<>>]
Query(entries) == [defined |-> TRUE, entries |-> entries]

RECURSIVE SetParams(_)
SetParams(entries) ==
    IF entries = <<>> THEN <<>>
    ELSE LET e == Head(entries)
             rest == SetParams(Tail(entries))
         IN IF e.value # Undefined /\ e.value # Null
            THEN <<[key |-> e.key, value |-> String(e.value)]>> \o rest
            ELSE rest

\* get with the raw token as Authorization value, the scheme left out.
getNoBearer(cfg, endpoint, queryParams) ==
    [url |-> BASE_URL \o "/" \o String(cfg.projectId)
                \o (IF endpoint # "" THEN "/" \o endpoint ELSE ""),
     params |-> IF queryParams.defined THEN SetParams(queryParams.entries)
                                       ELSE <<>>,
     headers |-> [Authorization |-> String(cfg.apiToken)]]

get(cfg, endpoint, queryParams) ==
    [url |-> BASE_URL \o "/" \o String(cfg.projectId)
                \o (IF endpoint # "" THEN "/" \o endpoint ELSE ""),
     params |-> IF queryParams.defined THEN SetParams(queryParams.entries)
                                       ELSE <<>>,
     headers |-> [Authorization |-> "Bearer " \o String(cfg.apiToken)]]

(***************************************************************************)
(* The public operations: the request each one builds.                     *)
(***************************************************************************)
getCategories(cfg) == get(cfg, "", NoQuery)

\* params?.filters?.category?.slug
SlugOf(params) ==
    IF params = Undefined \/ params = Null THEN Undefined
    ELSE IF params.filters = Undefined \/ params.filters = Null THEN Undefined
    ELSE params.filters.category.slug

\* params?.start and params?.offset
StartOf(params) ==
    IF params = Undefined \/ params = Null THEN Undefined ELSE params.start

OffsetOf(params) ==
    IF params = Undefined \/ params = Null THEN Undefined ELSE params.offset

\* getPages testing offset for truthiness, as it tests the slug.
getPagesTruthyOffset(cfg, params) ==
    get(cfg, "pages",
        Query((IF Truthy(SlugOf(params))
               THEN <<[key |-> "filter.category.slug", value |-> SlugOf(params)]>>
               ELSE <<>>)
           \o (IF StartOf(params) # Undefined
               THEN <<[key |-> "start", value |-> StartOf(params)]>>
               ELSE <<>>)
           \o (IF Truthy(OffsetOf(params))
               THEN <<[key |-> "offset", value |-> OffsetOf(params)]>>
               ELSE <<>>)))

getPages(cfg, params) ==
    get(cfg, "pages",
        Query((IF Truthy(SlugOf(params))
               THEN <<[key |-> "filter.category.slug", value |-> SlugOf(params)]>>
               ELSE <<>>)
           \o (IF StartOf(params) # Undefined
               THEN <<[key |-> "start", value |-> StartOf(params)]>>
               ELSE <<>>)
           \o (IF OffsetOf(params) # Undefined
               THEN <<[key |-> "offset", value |-> OffsetOf(params)]>>
               ELSE <<>>)))

\* getPageBySlug ignoring its version argument.
getPageBySlugNoVersion(cfg, slug, version) ==
    get(cfg, "pages/" \o String(slug), Query(<<>>))

getPageBySlug(cfg, slug, version) ==
    get(cfg, "pages/" \o String(slug),
        Query(IF Truthy(version) THEN <<[key |-> "v", value |-> version]>>
                                 ELSE <<>>))

getMenuById(cfg, id) == get(cfg, "menus/" \o String(id), NoQuery)

(***************************************************************************)
(* The result of a call: what http.get emits and what the piped operators  *)
(* make of it.                                                             *)
(***************************************************************************)
Pending == [kind |-> "pending"]

\* A source that emits more than once, as http.get does under
\* observe: 'events'.
httpGetTwice(body) == <<body, body>>

\* The values http.get(url, {headers, params}) emits before it completes.
httpGet(body) == <<body>>

\* The selector returning the source it caught, which subscribes again.
catchErrorRetry(error) == [kind |-> "caught", error |-> ""]

\* The selector with error.status left out of the message.
catchErrorNoStatus(error) ==
    [kind |-> "throwError",
     error |-> "JustCMS API error: " \o error.message]

\* The observable the catchError selector returns: throwError(...).
catchError(error) ==
    [kind |-> "throwError",
     error |-> "JustCMS API error " \o String(Num(error.status)) \o ": "
                  \o error.message]

\* map(response => response.categories) of getCategories; the other
\* operations pipe nothing after get.  Reading a property of null throws.
mapResponse(op, response) ==
    IF op # "getCategories" THEN [threw |-> FALSE, value |-> response]
    ELSE IF response = Null \/ response = Undefined
    THEN [threw |-> TRUE,
          value |-> "Cannot read properties of null (reading 'categories')"]
    ELSE [threw |-> FALSE, value |-> response.categories]

NextEvent(v) == [kind |-> "next", value |-> v]
ErrorEvent(m) == [kind |-> "error", value |-> m]
CompleteEvent == [kind |-> "complete", value |-> ""]

\* What the subscriber sees of the values the source emits before it
\* completes: an operator that throws ends the stream with an error.
RECURSIVE Pipe(_, _)
Pipe(op, values) ==
    IF values = <<>> THEN <<CompleteEvent>>
    ELSE LET m == mapResponse(op, Head(values))
         IN IF m.threw THEN <<ErrorEvent(m.value)>>
            ELSE <<NextEvent(m.value)>> \o Pipe(op, Tail(values))

\* The subscriber of call i receives the mapped values, then complete.
OnSuccess(cs, i, body) ==
    [cs EXCEPT ![i].resp = [kind |-> "success", body |-> body],
               ![i].events = @ \o Pipe(cs[i].op, httpGet(body))]

\* A failure kept in state shared by the calls: every call still in flight
\* receives it.
OnErrorShared(cs, i, error) ==
    [j \in 1..Len(cs) |->
        IF j = i
        THEN [cs[j] EXCEPT !.resp = [kind |-> "failure", error |-> error],
                           !.events = @ \o <<ErrorEvent(catchError(error).error)>>]
        ELSE IF cs[j].resp = Pending
        THEN [cs[j] EXCEPT !.events = @ \o <<ErrorEvent(catchError(error).error)>>]
        ELSE cs[j]]

\* The subscriber of call i receives the error thrown by catchError.
OnError(cs, i, error) ==
    [cs EXCEPT ![i].resp = [kind |-> "failure", error |-> error],
               ![i].events = @ \o <<ErrorEvent(catchError(error).error)>>]

(***************************************************************************)
(* Inputs.                                                                 *)
(***************************************************************************)
ApiTokens == {Undefined, Str(""), Str("tok")}
ProjectIds == {Undefined, Str(""), Str("proj")}
Configs == [apiToken : ApiTokens, projectId : ProjectIds]

FiltersInputs ==
    {Undefined} \cup {[category |-> [slug |-> s]] : s \in {Str(""), Str("blog")}}
StartInputs == {Undefined, Null, Num(10)}
OffsetInputs == {Undefined, Num(0)}
PagesInputs ==
    {Undefined} \cup
    [filters : FiltersInputs, start : StartInputs, offset : OffsetInputs]

SlugInputs == {Str("about-us"), Str("")}
VersionInputs == {Undefined, Str(""), Str("draft")}
MenuIds == {Str("main-menu")}

\* The bodies the upstream service answers an operation with: the declared
\* shape, or null (a response without content).
Bodies(op) ==
    {Null,
     IF op = "getCategories"
     THEN [categories |-> <<[name |-> "News", slug |-> "news"],
                            [name |-> "Blog", slug |-> "blog"]>>]
     ELSE [data |-> op]}

\* HttpErrorResponse: 4xx, 5xx, and status 0 for a network-level failure.
TransportErrors ==
    {[status |-> 404, message |-> "Not Found"],
     [status |-> 500, message |-> "Internal Server Error"],
     [status |-> 0, message |-> "Unknown Error"]}

NoUtil == [fn |-> "none"]

(***************************************************************************)
(* The client as a state machine.                                          *)
(***************************************************************************)
Init ==
    /\ config = [apiToken |-> Undefined, projectId |-> Undefined]
    /\ client = "none"
    /\ ctorError = ""
    /\ requests = <<>>
    /\ calls = <<>>
    /\ util = NoUtil

Construct ==
    \E cfg \in Configs :
        /\ client = "none"
        /\ config' = cfg
        /\ client' = IF constructor(cfg).threw THEN "failed" ELSE "ready"
        /\ ctorError' = constructor(cfg).message
        /\ UNCHANGED <<requests, calls, util>>

\* A call of a public operation whose result the caller subscribes to.
Call(op, args, request) ==
    /\ client = "ready"
    /\ Len(calls) < MaxCalls
    /\ requests' = Append(requests, request)
    /\ calls' = Append(calls, [op |-> op, args |-> args, req |-> Len(requests) + 1,
                               resp |-> Pending, events |-> <<>>])
    /\ UNCHANGED <<config, client, ctorError, util>>

GetCategories == Call("getCategories", <<>>, getCategories(config))

GetPages ==
    \E p \in PagesInputs : Call("getPages", <<p>>, getPages(config, p))

GetPageBySlug ==
    \E s \in SlugInputs, v \in VersionInputs :
        Call("getPageBySlug", <<s, v>>, getPageBySlug(config, s, v))

GetMenuById ==
    \E id \in MenuIds : Call("getMenuById", <<id>>, getMenuById(config, id))

TransportSuccess ==
    \E i \in 1..Len(calls) :
      \E b \in Bodies(calls[i].op) :
        /\ calls[i].resp = Pending
        /\ calls' = OnSuccess(calls, i, b)
        /\ UNCHANGED <<config, client, ctorError, requests, util>>

TransportFailure ==
    \E i \in 1..Len(calls), e \in TransportErrors :
        /\ calls[i].resp = Pending
        /\ IF catchError(e).kind = "caught"
           THEN /\ requests' = Append(requests, requests[calls[i].req])
                /\ calls' = [calls EXCEPT ![i].req = Len(requests) + 1]
           ELSE /\ calls' = OnError(calls, i, e)
                /\ UNCHANGED requests
        /\ UNCHANGED <<config, client, ctorError, util>>

Next ==
    \/ Construct
    \/ GetCategories
    \/ GetPages
    \/ GetPageBySlug
    \/ GetMenuById
    \/ TransportSuccess
    \/ TransportFailure

Spec == Init /\ [][Next]_vars

(***************************************************************************)
(* The utility methods.  A string is the sequence of its characters.       *)
(***************************************************************************)
UpperCase == <<"A", "B", "C", "D", "E", "F", "G", "H", "I", "J", "K", "L", "M",
               "N", "O", "P", "Q", "R", "S", "T", "U", "V", "W", "X", "Y", "Z">>
LowerCase == <<"a", "b", "c", "d", "e", "f", "g", "h", "i", "j", "k", "l", "m",
               "n", "o", "p", "q", "r", "s", "t", "u", "v", "w", "x", "y", "z">>

\* String.prototype.toLowerCase
toLowerCase(s) ==
    [k \in 1..Len(s) |->
        IF \E u \in 1..Len(UpperCase) : UpperCase[u] = s[k]
        THEN LowerCase[CHOOSE u \in 1..Len(UpperCase) : UpperCase[u] = s[k]]
        ELSE s[k]]

\* Array.prototype.includes
includes(array, x) == \E k \in 1..Len(array) : array[k] = x

\* isBlockHasStyle lower-casing the block's styles only.
isBlockHasStyleExact(block, style) ==
    [threw |-> FALSE,
     value |-> includes([k \in 1..Len(block.styles) |-> toLowerCase(block.styles[k])],
                        style)]

isBlockHasStyle(block, style) ==
    [threw |-> FALSE,
     value |-> includes([k \in 1..Len(block.styles) |-> toLowerCase(block.styles[k])],
                        toLowerCase(style))]

\* image.variants[1]: the array is 0-based, the sequence 1-based.  Reading
\* variants of null throws a TypeError.
getLargeImageVariant(image) ==
    IF image = Null \/ image = Undefined
    THEN [threw |-> TRUE,
          value |-> "Cannot read properties of null (reading 'variants')"]
    ELSE [threw |-> FALSE,
          value |-> IF Len(image.variants) >= 2 THEN image.variants[2]
                                                ELSE Undefined]

StyleWords ==
    {<<"B", "o", "l", "d">>, <<"b", "o", "l", "d">>, <<"H", "i">>, <<"h", "i">>,
     <<"H", "I">>}
SeqsUpTo(S, n) == UNION {[1..k -> S] : k \in 0..n}
Blocks == [type : {"text"}, styles : SeqsUpTo(StyleWords, MaxStyles)]

Variant(k) ==
    [url |-> "https://cdn/v" \o NatToString(k), width |-> 100 * (k + 1),
     height |-> 50 * (k + 1), filename |-> "v" \o NatToString(k)]
ImageOf(n) == [alt |-> "cover", variants |-> [k \in 1..n |-> Variant(k - 1)]]
\* PageSummary.coverImage and PageDetail.coverImage: Image | null
CoverImages == {Null} \cup {ImageOf(n) : n \in 0..MaxVariants}

IsBlockHasStyle ==
    \E b \in Blocks, s \in StyleWords :
        /\ util' = [fn |-> "isBlockHasStyle", block |-> b, style |-> s,
                    result |-> isBlockHasStyle(b, s)]
        /\ UNCHANGED <<config, client, ctorError, requests, calls>>

GetLargeImageVariant ==
    \E img \in CoverImages :
        /\ util' = [fn |-> "getLargeImageVariant", image |-> img,
                    result |-> getLargeImageVariant(img)]
        /\ UNCHANGED <<config, client, ctorError, requests, calls>>

UtilNext ==
    \/ IsBlockHasStyle
    \/ GetLargeImageVariant

UtilSpec == Init /\ [][UtilNext]_vars

(***************************************************************************)
(* Properties.                                                             *)
(***************************************************************************)
Present(v) == v # Undefined /\ v # Null

\* The request call i handed to the transport.
RequestOf(i) == requests[calls[i].req]

HasParam(r, key) == \E k \in 1..Len(r.params) : r.params[k].key = key

\* Parameter key occurs exactly once in r, with this value.
ParamIs(r, key, value) ==
    /\ Cardinality({k \in 1..Len(r.params) : r.params[k].key = key}) = 1
    /\ \A k \in 1..Len(r.params) : r.params[k].key = key => r.params[k].value = value

\* The string form of the inputs the operations are called with.
StringForm(v) ==
    CASE v = Num(10) -> "10"
      [] v = Num(0) -> "0"
      [] OTHER -> v.s

PagesUrl == "https://api.justcms.co/public/proj/pages"

\* C1: construction fails with the token message when apiToken is empty or
\* absent, fails with the (different) project message when only projectId is
\* empty or absent, and a failed construction has issued no request and
\* admits no call.
C1_ConfigErrors ==
    client # "none" =>
        /\ ~Truthy(config.apiToken) =>
              client = "failed" /\ ctorError = "JustCMS API token is required"
        /\ Truthy(config.apiToken) /\ ~Truthy(config.projectId) =>
              client = "failed" /\ ctorError = "JustCMS project ID is required"
        /\ client = "failed" =>
              ctorError # "" /\ requests = <<>> /\ calls = <<>>
        /\ client = "ready" => ctorError = ""

C1_Witness ==
    /\ client = "failed"
    /\ Truthy(config.apiToken)
    /\ config.projectId = Str("")
    /\ ctorError = "JustCMS project ID is required"

\* C2: the number of requests handed to the transport equals the number of
\* calls made, whatever the calls' arguments and outcomes: no retry after a
\* failure, no cached answer for a repeated call.
C2_OneRequestPerCall ==
    /\ Len(requests) = Len(calls)
    /\ \A i \in 1..Len(calls) : calls[i].req = i

C2_Witness ==
    /\ Len(calls) = 2
    /\ calls[1].op = calls[2].op
    /\ calls[1].args = calls[2].args
    /\ calls[1].resp.kind = "failure"
    /\ Len(requests) = 2

\* C3 as amended: a getPages request goes to {base}/{projectId}/pages;
\* filter.category.slug is included iff the slug is defined, non-null and
\* not the empty string, start and offset iff the input is defined and
\* non-null; an included parameter has the string form of its input, and no
\* other parameter is sent.
C3_PagesQuery ==
    \A i \in 1..Len(calls) :
        calls[i].op = "getPages" =>
            LET p == calls[i].args[1]
                r == RequestOf(i)
                slug == IF p = Undefined \/ p.filters = Undefined
                        THEN Undefined ELSE p.filters.category.slug
                start == IF p = Undefined THEN Undefined ELSE p.start
                offset == IF p = Undefined THEN Undefined ELSE p.offset
            IN /\ r.url = PagesUrl
               /\ HasParam(r, "filter.category.slug") <=> (Present(slug) /\ slug.s # "")
               /\ HasParam(r, "start") <=> Present(start)
               /\ HasParam(r, "offset") <=> Present(offset)
               /\ HasParam(r, "filter.category.slug") =>
                     ParamIs(r, "filter.category.slug", StringForm(slug))
               /\ HasParam(r, "start") => ParamIs(r, "start", StringForm(start))
               /\ HasParam(r, "offset") => ParamIs(r, "offset", StringForm(offset))
               /\ \A k \in 1..Len(r.params) :
                     r.params[k].key \in {"filter.category.slug", "start", "offset"}
               /\ p = Undefined => r.params = <<>>

C3_Witness ==
    \E i \in 1..Len(calls) :
        /\ calls[i].op = "getPages"
        /\ calls[i].args[1] # Undefined
        /\ calls[i].args[1].filters = [category |-> [slug |-> Str("blog")]]
        /\ calls[i].args[1].start = Num(10)
        /\ calls[i].args[1].offset = Num(0)
        /\ Len(RequestOf(i).params) = 3

\* C3 as stated: every one of the three parameters, filter.category.slug
\* too, is included iff its input is defined and non-null.
C3_Original ==
    \A i \in 1..Len(calls) :
        calls[i].op = "getPages" =>
            LET p == calls[i].args[1]
                r == RequestOf(i)
                slug == IF p = Undefined \/ p.filters = Undefined
                        THEN Undefined ELSE p.filters.category.slug
                start == IF p = Undefined THEN Undefined ELSE p.start
                offset == IF p = Undefined THEN Undefined ELSE p.offset
            IN /\ r.url = PagesUrl
               /\ HasParam(r, "filter.category.slug") <=> Present(slug)
               /\ HasParam(r, "start") <=> Present(start)
               /\ HasParam(r, "offset") <=> Present(offset)

\* The message the caller is to receive for a transport failure.
NormalizedMessage(e) ==
    CASE e.status = 404 -> "JustCMS API error 404: Not Found"
      [] e.status = 500 -> "JustCMS API error 500: Internal Server Error"
      [] e.status = 0 -> "JustCMS API error 0: Unknown Error"

\* C4: a call whose request the transport failed, with whatever status,
\* delivers to its caller exactly one error, whose message is
\* 'JustCMS API error {status}: {message}', and no success value.
C4_NormalizedError ==
    \A i \in 1..Len(calls) :
        calls[i].resp.kind = "failure" =>
            calls[i].events = <<[kind |-> "error",
                                 value |-> NormalizedMessage(calls[i].resp.error)]>>

C4_Witness ==
    /\ \E i \in 1..Len(calls) :
          calls[i].resp.kind = "failure" /\ calls[i].resp.error.status = 404
    /\ \E i \in 1..Len(calls) :
          calls[i].resp.kind = "failure" /\ calls[i].resp.error.status = 0

\* C5: every request of a constructed client carries the header
\* Authorization: Bearer {apiToken}, apiToken being the non-empty token of
\* the configuration.
C5_BearerHeader ==
    \A k \in 1..Len(requests) :
        /\ config.apiToken.t = "string"
        /\ config.apiToken.s # ""
        /\ requests[k].headers = [Authorization |-> "Bearer " \o config.apiToken.s]

C5_Witness ==
    /\ Len(requests) = 2
    /\ calls[1].op # calls[2].op
    /\ calls[1].resp.kind = "failure"
    /\ requests[2].headers.Authorization = "Bearer tok"

SingleShot(ev) ==
    \/ ev = <<>>
    \/ Len(ev) = 2 /\ ev[1].kind = "next" /\ ev[2].kind = "complete"
    \/ Len(ev) = 1 /\ ev[1].kind = "error"
    \/ Len(ev) = 1 /\ ev[1].kind = "complete"

\* C7: the result of a call delivers either at most one success value and
\* then completes, or a single error, never both and never more; once it
\* has completed or failed it delivers nothing further.
C7_SingleShot ==
    [][/\ \A i \in 1..Len(calls') : SingleShot(calls'[i].events)
       /\ \A i \in 1..Len(calls) :
             calls[i].events # <<>> => calls'[i].events = calls[i].events]_vars

C7_Witness ==
    /\ Len(calls) = 2
    /\ Len(calls[1].events) = 2 /\ calls[1].events[1].kind = "next"
    /\ Len(calls[2].events) = 1 /\ calls[2].events[1].kind = "error"

\* What a call delivers, as a function of its own operation and of the
\* transport's answer to its own request.
OwnOutcome(c) ==
    CASE c.resp.kind = "pending" -> <<>>
      [] c.resp.kind = "failure" ->
            <<[kind |-> "error", value |-> NormalizedMessage(c.resp.error)]>>
      [] c.resp.kind = "success" ->
            IF c.op = "getCategories"
            THEN IF c.resp.body = Null
                 THEN <<[kind |-> "error",
                         value |-> "Cannot read properties of null (reading 'categories')"]>>
                 ELSE <<[kind |-> "next", value |-> c.resp.body.categories],
                        [kind |-> "complete", value |-> ""]>>
            ELSE <<[kind |-> "next", value |-> c.resp.body],
                   [kind |-> "complete", value |-> ""]>>

\* C8: a step changes at most one call, the one the transport answers in
\* that step; every call's outcome is determined by the answer to its own
\* request, whatever happened to the calls around it; and no step of a
\* constructed client changes the client's configuration.
C8_Independent ==
    [][/\ \A j \in 1..Len(calls) :
             calls'[j] # calls[j] =>
                 /\ calls[j].resp = Pending
                 /\ calls'[j].resp # Pending
                 /\ \A k \in 1..Len(calls) : k # j => calls'[k] = calls[k]
       /\ \A j \in 1..Len(calls') : calls'[j].events = OwnOutcome(calls'[j])
       /\ client = "ready" =>
             config' = config /\ client' = client /\ ctorError' = ctorError]_vars

C8_Witness ==
    /\ Len(calls) = 2
    /\ calls[1].resp.kind = "failure"
    /\ calls[2].resp.kind = "success"
    /\ calls[2].events[1].kind = "next"

\* C9: isBlockHasStyle returns true iff some element of block.styles equals
\* style once both are lower-cased, false otherwise, and never throws.
C9_StyleMembership ==
    util.fn = "isBlockHasStyle" =>
        /\ ~util.result.threw
        /\ util.result.value \in BOOLEAN
        /\ util.result.value <=>
              \E k \in 1..Len(util.block.styles) :
                  toLowerCase(util.block.styles[k]) = toLowerCase(util.style)

C9_Witness ==
    /\ util.fn = "isBlockHasStyle"
    /\ util.result.value = TRUE
    /\ util.style = <<"h", "i">>
    /\ util.block.styles = <<<<"B", "o", "l", "d">>, <<"H", "I">>>>

\* C10: getLargeImageVariant never throws, on the cover image of a page
\* included, and returns the element at index 1 of image.variants when
\* there are two or more and undefined otherwise.
C10_LargeVariantTotal ==
    util.fn = "getLargeImageVariant" =>
        /\ ~util.result.threw
        /\ util.result.value =
              IF Len(util.image.variants) >= 2 THEN util.image.variants[2]
                                               ELSE Undefined

====
